---- MODULE Spec2Model ----
(***************************************************************************)
(* The DAPO math reward (examples/DAPO/hf_math_verify.py), its answer      *)
(* extractor and normalizer (examples/DAPO/parser.py) and the local        *)
(* retrieval client (examples/search-r1/local_search_server.py).           *)
(*                                                                         *)
(* Text is a sequence of characters; a character is a one-character        *)
(* string.  Non-ASCII characters of the sources are written by code point  *)
(* ("U+7B54").  The external libraries (math_verify.parse, sympy_expr_eq,  *)
(* aiohttp) are black boxes: each call nondeterministically returns one of *)
(* the outcomes the library can produce, raising included.                 *)
(***************************************************************************)
EXTENDS Integers, Sequences, FiniteSets, TLC

VARIABLES
  pc,              \* position of the running call
  response,        \* get_dapo_math_reward: argument response
  label,           \* get_dapo_math_reward: argument label
  model_output,    \* extract_solution: the trimmed, truncated response
  extracted_answer,\* get_dapo_math_reward: extract_solution(response)
  boxed_answer,    \* get_dapo_math_reward: candidate after box-wrapping
  boxed_label,     \* get_dapo_math_reward: label after box-wrapping
  parsed_target,   \* _hf_verify: parse(target)
  parsed_gold,     \* _hf_verify: parse(gold)
  parse_calls,     \* number of calls of math_verify.parse made so far
  result,          \* value returned by the running call, -1 before it returns
  raised,          \* the exception that left the running call, or "none"
  arg,             \* arguments of the call under test (per specification)
  trace,           \* what the call recorded on its way (per specification)
  idx,             \* local_search: position of the format loop
  contexts         \* local_search: the list that is built and returned

vars == <<pc, response, label, model_output, extracted_answer, boxed_answer,
          boxed_label, parsed_target, parsed_gold, parse_calls, result, raised,
          arg, trace, idx, contexts>>

-----------------------------------------------------------------------------
(* Characters and the str / re primitives the sources use.                 *)

Digits == {"0", "1", "2", "3", "4", "5", "6", "7", "8", "9"}

LowerSeq == <<"a", "b", "c", "d", "e", "f", "g", "h", "i", "j", "k", "l", "m", "n", "o", "p", "q", "r", "s", "t", "u", "v", "w", "x", "y", "z">>

UpperSeq == <<"A", "B", "C", "D", "E", "F", "G", "H", "I", "J", "K", "L", "M", "N", "O", "P", "Q", "R", "S", "T", "U", "V", "W", "X", "Y", "Z">>

Range(f) == {f[i] : i \in DOMAIN f}

\* alphanumeric characters outside ASCII that occur in the sources
\* (pi, a-circumflex, superscript three, the Cyrillic and the Chinese marker)
AlnumExtra == {"U+03C0", "U+00E2", "U+00B3", "U+043A", "U+0438",
               "U+7B54", "U+6848", "U+662F"}

AlnumChars == Range(LowerSeq) \cup Range(UpperSeq) \cup Digits \cup AlnumExtra

\* str.isalnum() of one character
IsAlnumChar(c) == c \in AlnumChars

\* the regular-expression class \w (and \W its complement)
IsWordChar(c) == IsAlnumChar(c) \/ c = "_"

\* the characters str.strip() and the class \s remove
Whitespace == {" ", "\n", "\t"}

Min(S) == CHOOSE m \in S : \A n \in S : m <= n

Max(S) == CHOOSE m \in S : \A n \in S : m >= n

Take(s, n) == SubSeq(s, 1, n)

Drop(s, n) == SubSeq(s, n + 1, Len(s))

\* p occurs in s at index i
StartsAt(s, i, p) ==
  /\ i >= 1
  /\ i + Len(p) - 1 <= Len(s)
  /\ \A k \in 1..Len(p) : s[i + k - 1] = p[k]

\* Python `p in s` (p non-empty)
Contains(s, p) == \E i \in 1..(Len(s) - Len(p) + 1) : StartsAt(s, i, p)

\* str.find: index of the first occurrence of p at or after from, 0 if none
Find(s, p, from) ==
  LET I == {i \in from..(Len(s) - Len(p) + 1) : StartsAt(s, i, p)}
  IN  IF I = {} THEN 0 ELSE Min(I)

\* str.rfind: index of the last occurrence of p, 0 if none
FindLast(s, p) ==
  LET I == {i \in 1..(Len(s) - Len(p) + 1) : StartsAt(s, i, p)}
  IN  IF I = {} THEN 0 ELSE Max(I)

\* str.replace(p, r): leftmost occurrences, not overlapping
RECURSIVE Replace(_, _, _)
Replace(s, p, r) ==
  LET i == Find(s, p, 1)
  IN  IF i = 0 THEN s
      ELSE Take(s, i - 1) \o r \o Replace(Drop(s, i + Len(p) - 1), p, r)

\* str.split(p): the pieces between the occurrences of p
RECURSIVE Split(_, _)
Split(s, p) ==
  LET i == Find(s, p, 1)
  IN  IF i = 0 THEN <<s>>
      ELSE <<Take(s, i - 1)>> \o Split(Drop(s, i + Len(p) - 1), p)

\* str.split(p)[0]
BeforeFirst(s, p) ==
  LET i == Find(s, p, 1) IN IF i = 0 THEN s ELSE Take(s, i - 1)

\* str.split(p, 1)[1] (p occurs in s)
AfterFirst(s, p) == Drop(s, Find(s, p, 1) + Len(p) - 1)

\* str.split(p)[-1]
AfterLast(s, p) ==
  LET parts == Split(s, p) IN parts[Len(parts)]

\* str.count(p)
Count(s, p) == Len(Split(s, p)) - 1

\* index of the last character of the longest run of characters of C that
\* starts at index i (i - 1 when s[i] is not in C)
RunEnd(s, i, C) ==
  LET J == {j \in i..Len(s) : s[j] \notin C}
  IN  IF J = {} THEN Len(s) ELSE Min(J) - 1

\* index of the first character of the longest run of characters of C that
\* ends at index i (i + 1 when s[i] is not in C)
RunStart(s, i, C) ==
  LET J == {j \in 1..i : s[j] \notin C}
  IN  IF J = {} THEN 1 ELSE Max(J) + 1

\* str.lstrip(chars) / str.rstrip(chars) / str.strip(chars)
LStripSet(s, C) == Drop(s, RunEnd(s, 1, C))

RStripSet(s, C) == Take(s, RunStart(s, Len(s), C) - 1)

StripSet(s, C) == RStripSet(LStripSet(s, C), C)

\* str.strip()
Strip(s) == StripSet(s, Whitespace)

\* str.upper() on ASCII letters
UpperChar(c) ==
  IF c \in Range(LowerSeq)
  THEN UpperSeq[CHOOSE i \in 1..26 : LowerSeq[i] = c]
  ELSE c

Upper(s) == [i \in 1..Len(s) |-> UpperChar(s[i])]

\* str.isalnum()
IsAlnum(s) == s # <<>> /\ \A i \in 1..Len(s) : IsAlnumChar(s[i])

\* str.isdigit()
IsDigits(s) == s # <<>> /\ \A i \in 1..Len(s) : s[i] \in Digits

-----------------------------------------------------------------------------
(* parser.py: the normalizer, strip_string, and its helpers.               *)

\* _fix_fracs: the loop over the pieces after the first "\frac"
RECURSIVE FixFracsLoop(_, _, _, _)
FixFracsLoop(string, substrs, k, new_str) ==
  IF k > Len(substrs) THEN new_str
  ELSE LET substr == substrs[k]
           acc    == new_str \o <<"\\", "f", "r", "a", "c">>
       IN  IF Len(substr) > 0 /\ substr[1] = "{"
           THEN FixFracsLoop(string, substrs, k + 1, acc \o substr)
           ELSE IF Len(substr) < 2
           THEN string                       \* the assert fails: return string
           ELSE LET a == substr[1]
                    b == substr[2]
                    post_substr == Drop(substr, 2)
                IN  IF b # "{"
                    THEN FixFracsLoop(string, substrs, k + 1,
                           acc \o <<"{", a, "}", "{", b, "}">> \o post_substr)
                    ELSE FixFracsLoop(string, substrs, k + 1,
                           acc \o <<"{", a, "}", b>> \o post_substr)

_fix_fracs(string) ==
  LET substrs == Split(string, <<"\\", "f", "r", "a", "c">>)
  IN  FixFracsLoop(string, substrs, 2, substrs[1])

\* int(a) succeeds and str(int(a)) = a: an optional minus sign and digits
\* with no leading zero (int() also accepts signs, blanks and underscores,
\* but then the assert string == f"{a}/{b}" fails)
IsCanonicalInt(a) ==
  LET d == IF a # <<>> /\ a[1] = "-" THEN Tail(a) ELSE a
  IN  /\ IsDigits(d)
      /\ (Len(d) > 1 => d[1] # "0")
      /\ (a[1] = "-" => d # <<"0">>)

_fix_a_slash_b(string) ==
  LET parts == Split(string, <<"/">>)
  IN  IF Len(parts) # 2 THEN string
      ELSE LET a == parts[1]
               b == parts[2]
           IN  IF /\ (Contains(a, <<"s", "q", "r", "t">>) \/ IsCanonicalInt(a))
                  /\ (Contains(b, <<"s", "q", "r", "t">>) \/ IsCanonicalInt(b))
               THEN <<"\\", "f", "r", "a", "c", "{">> \o a \o <<"}", "{">> \o b \o <<"}">>
               ELSE string                   \* int() or the assert raised

\* _fix_sqrt: re.sub(r"\\sqrt(\w+)", r"\\sqrt{\1}", string), from index pos on
RECURSIVE FixSqrtFrom(_, _)
FixSqrtFrom(s, pos) ==
  LET W == {c \in Range(s) : IsWordChar(c)}
      P == {i \in pos..Len(s) :
              StartsAt(s, i, <<"\\", "s", "q", "r", "t">>) /\ i + 5 <= Len(s) /\ s[i + 5] \in W}
  IN  IF P = {} THEN SubSeq(s, pos, Len(s))
      ELSE LET i == Min(P)
               k == RunEnd(s, i + 5, W)
           IN  SubSeq(s, pos, i - 1) \o <<"\\", "s", "q", "r", "t", "{">> \o SubSeq(s, i + 5, k) \o <<"}">>
                 \o FixSqrtFrom(s, k + 1)

_fix_sqrt(string) == FixSqrtFrom(string, 1)

\* w2n.word_to_num of the word2number library on a text that holds no English
\* number word: int(text) when text.isdigit(), otherwise it raises.  The
\* value is <<TRUE, str(number)>> or <<FALSE, <<>> >> for a raise.
word_to_num(text) ==
  IF IsDigits(text)
  THEN LET nz == LStripSet(text, {"0"})
       IN  <<TRUE, IF nz = <<>> THEN <<"0">> ELSE nz>>
  ELSE <<FALSE, <<>> >>

convert_word_number(text) ==
  LET r == word_to_num(text)
  IN  IF r[1] THEN r[2] ELSE text             \* except: pass

\* UNIT_TEXTS as written in the source, before the plural forms are added
UnitTextsBase ==
  <<
    <<"e", "a", "s", "t">>, <<"d", "e", "g", "r", "e", "e">>, <<"m", "p", "h">>, <<"k", "m", "p", "h">>,
    <<"f", "t">>, <<"m", " ", "s", "q", "a", "u", "r", "e">>, <<" ", "m", " ", "e", "a", "s", "t">>, <<"s", "q", " ", "m">>,
    <<"d", "e", "g">>, <<"m", "i", "l", "e">>, <<"q", " ", ".">>, <<"m", "o", "n", "k", "e", "y">>,
    <<"p", "r", "i", "m", "e">>, <<"r", "a", "t", "i", "o">>, <<"p", "r", "o", "f", "i", "t", " ", "o", "f", " ", "r", "s">>, <<"r", "d">>,
    <<"o">>, <<"g", "m">>, <<"p", " ", ".", " ", "m">>, <<"l", "b">>,
    <<"t", "i", "l", "e">>, <<"p", "e", "r">>, <<"d", "m">>, <<"l", "t">>,
    <<"g", "a", "i", "n">>, <<"a", "b">>, <<"w", "a", "y">>, <<"w", "e", "s", "t">>,
    <<"a", " ", ".">>, <<"b", " ", ".">>, <<"c", " ", ".">>, <<"d", " ", ".">>,
    <<"e", " ", ".">>, <<"f", " ", ".">>, <<"g", " ", ".">>, <<"h", " ", ".">>,
    <<"t">>, <<"a">>, <<"h">>, <<"n", "o", " ", "c", "h", "a", "n", "g", "e">>,
    <<"m", "e", "n">>, <<"s", "o", "l", "d", "i", "e", "r">>, <<"p", "i", "e">>, <<"b", "c">>,
    <<"e", "x", "c", "e", "s", "s">>, <<"s", "t">>, <<"i", "n", "c", "h", "e", "s">>, <<"n", "o", "o", "n">>,
    <<"p", "e", "r", "c", "e", "n", "t">>, <<"b", "y">>, <<"g", "a", "l">>, <<"k", "m", "h">>,
    <<"c">>, <<"a", "c", "r", "e">>, <<"r", "i", "s", "e">>, <<"a", " ", ".", " ", "m">>,
    <<"t", "h">>, <<"U+03C0", " ", "r", " ", "2">>, <<"s", "q">>, <<"m", "a", "r", "k">>,
    <<"l">>, <<"t", "o", "y">>, <<"c", "o", "i", "n">>, <<"s", "q", " ", ".", " ", "m">>,
    <<"g", "a", "l", "l", "o", "n">>, <<"U+00B0", " ", "f">>, <<"p", "r", "o", "f", "i", "t">>, <<"m", "i", "n", "w">>,
    <<"y", "r">>, <<"w", "o", "m", "e", "n">>, <<"f", "e", "e", "t">>, <<"a", "m">>,
    <<"p", "m">>, <<"h", "r">>, <<"c", "u", " ", "c", "m">>, <<"s", "q", "u", "a", "r", "e">>,
    <<"v", " ", "U+00E2", " ", "U+20AC", " ", "U+2122">>, <<"a", "r", "e">>, <<"r", "u", "p", "e", "e">>, <<"r", "o", "u", "n", "d", "s">>,
    <<"c", "u", "b", "i", "c">>, <<"c", "c">>, <<"m", "t", "r">>, <<"s">>,
    <<"o", "h", "m">>, <<"n", "u", "m", "b", "e", "r">>, <<"k", "m", "p", "h">>, <<"d", "a", "y">>,
    <<"h", "o", "u", "r">>, <<"m", "i", "n", "u", "t", "e">>, <<"m", "i", "n">>, <<"s", "e", "c", "o", "n", "d">>,
    <<"m", "a", "n">>, <<"w", "o", "m", "a", "n">>, <<"s", "e", "c">>, <<"c", "u", "b", "e">>,
    <<"m", "t">>, <<"s", "q", " ", "i", "n", "c", "h">>, <<"m", "p">>, <<"U+220F", " ", "c", "m", " ", "U+00B3">>,
    <<"h", "e", "c", "t", "a", "r", "e">>, <<"m", "o", "r", "e">>, <<"s", "e", "c">>, <<"u", "n", "i", "t">>,
    <<"c", "u", " ", ".", " ", "m">>, <<"c", "m", " ", "2">>, <<"r", "s", " ", ".">>, <<"r", "s">>,
    <<"k", "g">>, <<"g">>, <<"m", "o", "n", "t", "h">>, <<"k", "m">>,
    <<"m">>, <<"c", "m">>, <<"m", "m">>, <<"a", "p", "p", "l", "e">>,
    <<"l", "i", "t", "e", "r">>, <<"l", "o", "s", "s">>, <<"y", "a", "r", "d">>, <<"p", "u", "r", "e">>,
    <<"y", "e", "a", "r">>, <<"i", "n", "c", "r", "e", "a", "s", "e">>, <<"d", "e", "c", "r", "e", "a", "s", "e">>, <<"d">>,
    <<"l", "e", "s", "s">>, <<"S", "u", "r", "f", "a", "c", "e">>, <<"l", "i", "t", "r", "e">>, <<"p", "i", " ", "s", "q", " ", "m">>,
    <<"s", " ", ".">>, <<"m", "e", "t", "r", "e">>, <<"m", "e", "t", "e", "r">>, <<"i", "n", "c", "h">>
  >>

\* UNIT_TEXTS.extend([t + "s" for t in UNIT_TEXTS])
UNIT_TEXTS ==
  UnitTextsBase \o [i \in 1..Len(UnitTextsBase) |-> UnitTextsBase[i] \o <<"s">>]

\* the unit text, read as a regular expression, matches s at index i
\* ("." in a unit text is the any-character wildcard)
UnitAt(s, unit_text, i) ==
  /\ i + Len(unit_text) - 1 <= Len(s)
  /\ \A k \in 1..Len(unit_text) :
       IF unit_text[k] = "." THEN s[i + k - 1] # "\n"
       ELSE s[i + k - 1] = unit_text[k]

\* (^|\W) unit_text ($|\W) tried at index pos: <<first index of the unit,
\* index after the match>>, or <<0, 0>>; the alternatives in their order
UnitMatch(s, unit_text, pos) ==
  LET tail(u) ==    \* the unit starts at u: index after ($|\W), 0 if neither
        LET e == u + Len(unit_text)
        IN  IF ~UnitAt(s, unit_text, u) THEN 0
            ELSE IF e = Len(s) + 1 THEN e
            ELSE IF ~IsWordChar(s[e]) THEN e + 1
            ELSE 0
      atStart == IF pos = 1 THEN tail(pos) ELSE 0
      afterW  == IF pos <= Len(s) /\ ~IsWordChar(s[pos]) THEN tail(pos + 1) ELSE 0
  IN  IF atStart # 0 THEN <<pos, atStart>>
      ELSE IF afterW # 0 THEN <<pos + 1, afterW>>
      ELSE <<0, 0>>

\* re.sub(r"(^|\W)" + unit_text + r"($|\W)", r"\1\2", s) from index pos on:
\* the leftmost match, then the scan goes on after it
RECURSIVE UnitSubFrom(_, _, _)
UnitSubFrom(s, unit_text, pos) ==
  LET P == {i \in pos..Len(s) : UnitMatch(s, unit_text, i)[2] # 0}
  IN  IF P = {} THEN SubSeq(s, pos, Len(s))
      ELSE LET m == UnitMatch(s, unit_text, Min(P))
           IN  SubSeq(s, pos, m[1] - 1)
                 \o SubSeq(s, m[1] + Len(unit_text), m[2] - 1)
                 \o UnitSubFrom(s, unit_text, m[2])

\* the entries of UNIT_TEXTS by their first character (none starts with the
\* wildcard): a unit text can match only where its first character occurs
UnitsByFirst ==
  [c \in {UNIT_TEXTS[j][1] : j \in 1..Len(UNIT_TEXTS)} |->
     {j \in 1..Len(UNIT_TEXTS) : UNIT_TEXTS[j][1] = c}]

\* the pattern of unit_text matches somewhere in s
UnitOccurs(s, unit_text) ==
  \E u \in 1..(Len(s) - Len(unit_text) + 1) :
     /\ UnitAt(s, unit_text, u)
     /\ (u = 1 \/ ~IsWordChar(s[u - 1]))
     /\ (u + Len(unit_text) = Len(s) + 1 \/ ~IsWordChar(s[u + Len(unit_text)]))

\* one `for unit_text in UNIT_TEXTS` sweep, from entry k on.  An entry that
\* matches nowhere leaves the string as it is, so the sweep goes straight to
\* the next entry that matches somewhere in the current string.
RECURSIVE UnitSweep(_, _)
UnitSweep(string, k) ==
  LET C == UNION {UnitsByFirst[c] : c \in Range(string) \cap DOMAIN UnitsByFirst}
      K == {j \in C : j >= k /\ UnitOccurs(string, UNIT_TEXTS[j])}
  IN  IF K = {} THEN string
      ELSE LET j == Min(K)
               _string == UnitSubFrom(string, UNIT_TEXTS[j], 1)
           IN  IF _string # <<>> THEN UnitSweep(_string, j + 1)
               ELSE UnitSweep(string, j + 1)

\* lines 219-222: trim, drop newlines, trailing periods and "\!"
NormTrim(string) ==
  Replace(RStripSet(Replace(Strip(string), <<"\n">>, <<>>), {"."}), <<"\\", "!">>, <<>>)

\* re.sub(open + ".*?" + close, ...): every leftmost `open ... first close`;
\* keep = TRUE puts the text between them back (\1), FALSE puts rep
RECURSIVE SubDelimited(_, _, _, _, _)
SubDelimited(s, open, close, keep, rep) ==
  LET i == Find(s, open, 1)
      j == IF i = 0 THEN 0 ELSE Find(s, close, i + Len(open))
  IN  IF i = 0 \/ j = 0 THEN s
      ELSE Take(s, i - 1)
             \o (IF keep THEN SubSeq(s, i + Len(open), j - 1) ELSE rep)
             \o SubDelimited(Drop(s, j + Len(close) - 1), open, close, keep, rep)

\* lines 225-227: matrix environments
NormMatrix(string) ==
  Replace(
    Replace(
      SubDelimited(string, <<"\\", "b", "e", "g", "i", "n", "{", "a", "r", "r", "a", "y", "}", "{">>, <<"}">>, FALSE, <<"\\", "b", "e", "g", "i", "n", "{", "p", "m", "a", "t", "r", "i", "x", "}">>),
      <<"\\", "e", "n", "d", "{", "a", "r", "r", "a", "y", "}">>, <<"\\", "e", "n", "d", "{", "p", "m", "a", "t", "r", "i", "x", "}">>),
    <<"b", "m", "a", "t", "r", "i", "x">>, <<"p", "m", "a", "t", "r", "i", "x">>)

\* lines 230-236: LaTeX synonyms
NormLatex(string) ==
  LET s1 == Replace(string, <<"t", "f", "r", "a", "c">>, <<"f", "r", "a", "c">>)
      s2 == Replace(s1, <<"d", "f", "r", "a", "c">>, <<"f", "r", "a", "c">>)
      s3 == Replace(Replace(Replace(s2, <<"\\", "n", "e", "q">>, <<"\\", "n", "e">>), <<"\\", "l", "e", "q">>, <<"\\", "l", "e">>),
                    <<"\\", "g", "e", "q">>, <<"\\", "g", "e">>)
      s4 == Replace(s3, <<"\\", "l", "e", "f", "t">>, <<>>)
      s5 == Replace(s4, <<"\\", "r", "i", "g", "h", "t">>, <<>>)
      s6 == Replace(s5, <<"\\", "{">>, <<"{">>)
  IN  Replace(s6, <<"\\", "}">>, <<"}">>)

\* lines 239-241: re.sub(r"\\text{.*?}$", "", string).strip(), kept when it
\* is neither empty nor unchanged
NormTextTail(string) ==
  LET i == Find(string, <<"\\", "t", "e", "x", "t", "{">>, 1)
      matched == /\ i # 0
                 /\ Len(string) >= i + 6
                 /\ string[Len(string)] = "}"
      _string == Strip(IF matched THEN Take(string, i - 1) ELSE string)
  IN  IF _string # <<>> /\ _string # string THEN _string ELSE string

\* lines 243-248: two sweeps over UNIT_TEXTS unless skip_unit
NormUnits(string, skip_unit) ==
  IF skip_unit THEN string ELSE UnitSweep(UnitSweep(string, 1), 1)

\* lines 251-257: degree symbols, currency symbols, "\(" and "\)"
NormSymbols(string) ==
  LET s1 == Replace(string, <<"^", "{", "\\", "c", "i", "r", "c", "}">>, <<>>)
      s2 == Replace(s1, <<"^", "\\", "c", "i", "r", "c">>, <<>>)
      s3 == Replace(s2, <<"\\", "$">>, <<>>)
      s4 == Replace(s3, <<"$">>, <<>>)
  IN  Replace(Replace(s4, <<"\\", "(">>, <<>>), <<"\\", ")">>, <<>>)

\* the keys of line 264
BoundVariableKeys ==
  << <<"x", "=">>, <<"y", "=">>, <<"z", "=">>, <<"x", "\\", "i", "n">>, <<"y", "\\", "i", "n">>, <<"z", "\\", "i", "n">>,
     <<"x", "\\", "t", "o">>, <<"y", "\\", "t", "o">>, <<"z", "\\", "t", "o">> >>

RECURSIVE DropKeys(_, _)
DropKeys(string, k) ==
  IF k > Len(BoundVariableKeys) THEN string
  ELSE DropKeys(Replace(string, BoundVariableKeys[k], <<>>), k + 1)

\* lines 263-267: unwrap \text{...}, drop bound-variable prefixes,
\* \emptyset and the whole real line
NormText(string) ==
  LET s1 == SubDelimited(string, <<"\\", "t", "e", "x", "t", "{">>, <<"}">>, TRUE, <<>>)
      s2 == DropKeys(s1, 1)
      s3 == Replace(s2, <<"\\", "e", "m", "p", "t", "y", "s", "e", "t">>, <<"{", "}">>)
  IN  Replace(s3, <<"(", "-", "\\", "i", "n", "f", "t", "y", ",", "\\", "i", "n", "f", "t", "y", ")">>, <<"\\", "m", "a", "t", "h", "b", "b", "{", "R", "}">>)

\* lines 270-272: percent signs
NormPercent(string) ==
  Replace(Replace(Replace(string, <<"\\", "%">>, <<>>), <<"\\", "%">>, <<>>), <<"%">>, <<>>)

\* lines 275-276: decimal points without a leading zero
NormDecimal(string) ==
  Replace(Replace(string, <<" ", ".">>, <<" ", "0", ".">>), <<"{", ".">>, <<"{", "0", ".">>)

\* lines 279-290: the test calls isalnum() on the whole string, brackets
\* included
NormBrackets(string) ==
  LET enclosed(l, r) ==
        /\ string # <<>> /\ string[1] = l /\ string[Len(string)] = r
        /\ IsAlnum(string)
  IN  IF enclosed("{", "}") \/ enclosed("(", ")") \/ enclosed("[", "]")
      THEN SubSeq(string, 2, Len(string) - 1)
      ELSE string

\* lines 293-296: infinity
NormInfinity(string) ==
  LET s1 == Replace(string, <<"i", "n", "f", "i", "n", "i", "t", "y">>, <<"\\", "i", "n", "f", "t", "y">>)
      s2 == IF ~Contains(s1, <<"\\", "i", "n", "f", "t", "y">>) THEN Replace(s1, <<"i", "n", "f">>, <<"\\", "i", "n", "f", "t", "y">>) ELSE s1
  IN  Replace(s2, <<"+", "\\", "i", "n", "i", "t", "y">>, <<"\\", "i", "n", "f", "t", "y">>)

\* lines 298-302: "and", \mathbf, \mbox{...}; the two replace calls on the
\* quote characters discard their result
NormWords(string) ==
  SubDelimited(Replace(Replace(string, <<"a", "n", "d">>, <<>>), <<"\\", "m", "a", "t", "h", "b", "f">>, <<>>),
               <<"\\", "m", "b", "o", "x", "{">>, <<"}">>, FALSE, <<>>)

\* lines 304-305: j as the imaginary unit
NormImag(string) ==
  IF Contains(string, <<"j">>) /\ ~Contains(string, <<"i">>)
  THEN Replace(string, <<"j">>, <<"i">>)
  ELSE string

\* (\d+)\.0* tried at index i: <<index of the last digit, index of the last
\* character matched by \.0*>>, or <<0, 0>>
ZerosMatch(s, i) ==
  LET j == RunEnd(s, i, Digits)
      k == RunEnd(s, j + 2, {"0"})
  IN  IF j >= i /\ j + 1 <= Len(s) /\ s[j + 1] = "." THEN <<j, k>> ELSE <<0, 0>>

\* re.sub(r"(\d+)\.0*([^\d])", r"\1\2", s) from index pos on
RECURSIVE ZerosBeforeFrom(_, _)
ZerosBeforeFrom(s, pos) ==
  LET P == {i \in pos..Len(s) :
              LET m == ZerosMatch(s, i)
              IN  m[1] # 0 /\ m[2] + 1 <= Len(s) /\ s[m[2] + 1] \notin Digits}
  IN  IF P = {} THEN SubSeq(s, pos, Len(s))
      ELSE LET i == Min(P)
               m == ZerosMatch(s, i)
           IN  SubSeq(s, pos, m[1]) \o <<s[m[2] + 1]>> \o ZerosBeforeFrom(s, m[2] + 2)

\* a variant of ZerosAtEnd that drops one trailing zero and keeps the point
ZerosAtEndOne(s) ==
  IF s # <<>> /\ s[Len(s)] = "0" /\ Contains(s, <<".">>) THEN Take(s, Len(s) - 1) ELSE s

\* re.sub(r"(\d+)\.0*$", r"\1", s)
ZerosAtEnd(s) ==
  LET P == {i \in 1..Len(s) :
              LET m == ZerosMatch(s, i) IN m[1] # 0 /\ m[2] = Len(s)}
  IN  IF P = {} THEN s ELSE Take(s, ZerosMatch(s, Min(P))[1])

\* lines 308-309: trailing zeros
NormZeros(string) == ZerosAtEnd(ZerosBeforeFrom(string, 1))

\* lines 311-326: leading zero, simple equations, sqrt, blanks, fractions
NormTail(string) ==
  IF Len(string) = 0 THEN string
  ELSE LET s1 == IF string[1] = "." THEN <<"0">> \o string ELSE string
           eq == Split(s1, <<"=">>)
           s2 == IF Len(eq) = 2 /\ Len(eq[1]) <= 2 THEN eq[2] ELSE s1
           s3 == _fix_sqrt(s2)
           s4 == Replace(s3, <<" ">>, <<>>)
           s5 == _fix_fracs(s4)
       IN  _fix_a_slash_b(s5)

\* the passes of strip_string in the order of the source
Pass(n, string, skip_unit) ==
  CASE n = 1  -> NormTrim(string)
    [] n = 2  -> NormMatrix(string)
    [] n = 3  -> NormLatex(string)
    [] n = 4  -> NormTextTail(string)
    [] n = 5  -> NormUnits(string, skip_unit)
    [] n = 6  -> NormSymbols(string)
    [] n = 7  -> convert_word_number(string)
    [] n = 8  -> NormText(string)
    [] n = 9  -> NormPercent(string)
    [] n = 10 -> NormDecimal(string)
    [] n = 11 -> NormBrackets(string)
    [] n = 12 -> NormInfinity(string)
    [] n = 13 -> NormWords(string)
    [] n = 14 -> NormImag(string)
    [] n = 15 -> NormZeros(string)
    [] n = 16 -> NormTail(string)

\* the string after the first n passes (each pass works on the value the
\* one before it returned)
RECURSIVE Passes(_, _, _)
Passes(string, skip_unit, n) ==
  IF n = 0 THEN string
  ELSE CHOOSE r \in {Pass(n, v, skip_unit) : v \in {Passes(string, skip_unit, n - 1)}} : TRUE

strip_string(string, skip_unit) == Passes(string, skip_unit, 16)

-----------------------------------------------------------------------------
(* parser.py: choice_answer_clean and extract_answer.                      *)

\* re.findall(r"\b(A|B|C|D|E)\b", s): the indices of the standalone letters
ChoiceLetterAt(s) ==
  {i \in 1..Len(s) :
     /\ s[i] \in {"A", "B", "C", "D", "E"}
     /\ (i = 1 \/ ~IsWordChar(s[i - 1]))
     /\ (i = Len(s) \/ ~IsWordChar(s[i + 1]))}

\* the data_name values of the multiple-choice branch (line 385)
ChoiceDatasets == {"mmlu_stem", "sat_math", "aqua", "gaokao2023"}

\* the data_name values the model draws from; data_name is an atom, and
\* MmluDatasets are those of them with "mmlu" in the name (line 434)
DataNames == ChoiceDatasets \cup {"math", "gsm8k", "minerva_math", "carp_en", "mmlu"}

MmluDatasets == {"mmlu", "mmlu_stem"}

choice_answer_clean(pred0) ==
  LET p1  == StripSet(pred0, {"\n"})
      ICL == Count(p1, <<"c", "h", "o", "i", "c", "e", " ", "i", "s">>) > 1 \/ Count(p1, <<"a", "n", "s", "w", "e", "r", " ", "i", "s">>) > 1
      p2  == IF ICL THEN BeforeFirst(p1, <<"\n", "\n">>) ELSE p1
      \* re.split("choice is|answer is", pred): the two triggers cannot
      \* overlap, so the last piece starts after the last occurrence of either
      c   == FindLast(p2, <<"c", "h", "o", "i", "c", "e", " ", "i", "s">>)
      a   == FindLast(p2, <<"a", "n", "s", "w", "e", "r", " ", "i", "s">>)
      answer_flag == c # 0 \/ a # 0
      p3  == IF answer_flag THEN Drop(p2, Max({c, a}) + 8) ELSE p2
      p4  == LStripSet(StripSet(RStripSet(RStripSet(StripSet(p3, {"\n"}), {"."}), {"/"}),
                                {" "}), {":"})
      up  == Upper(p4)
      tmp == ChoiceLetterAt(up)
      p5  == IF tmp # {}
             THEN <<up[IF answer_flag THEN Min(tmp) ELSE Max(tmp)]>>
             ELSE StripSet(Strip(p4), {"."})
  IN  RStripSet(RStripSet(p5, {"."}), {"/"})

\* -?\d*\.?\d+ tried at index i: index of the last character matched, 0 if
\* the pattern does not match there
NumberMatchAt(s, i) ==
  LET q  == IF s[i] = "-" THEN i + 1 ELSE i
      r1 == RunEnd(s, q, Digits)
  IN  IF r1 + 2 <= Len(s) /\ s[r1 + 1] = "." /\ s[r1 + 2] \in Digits
      THEN RunEnd(s, r1 + 2, Digits)
      ELSE IF r1 >= q THEN r1 ELSE 0

\* re.findall(r"-?\d*\.?\d+", s)[-1] from index pos on; last is the match
\* found before pos
RECURSIVE LastNumberFrom(_, _, _)
LastNumberFrom(s, pos, last) ==
  LET P == {i \in pos..Len(s) : NumberMatchAt(s, i) # 0}
  IN  IF P = {} THEN last
      ELSE LET i == Min(P)
               e == NumberMatchAt(s, i)
           IN  LastNumberFrom(s, e + 1, SubSeq(s, i, e))

\* the loop of lines 399-411 on ans = "{" ...: the characters after the
\* opening brace up to the brace that brings the depth back to 0, or all of
\* them when no brace does.  Depth after ans[i] = braces opened - closed.
BoxedBraceContent(ans) ==
  LET depth(i) == Cardinality({j \in 1..i : ans[j] = "{"})
                    - Cardinality({j \in 1..i : ans[j] = "}"})
      Closing  == {i \in 2..Len(ans) : ans[i] = "}" /\ depth(i) = 0}
  IN  IF Closing = {} THEN Drop(ans, 1)
      ELSE SubSeq(ans, 2, Min(Closing) - 1)

\* the branch of the if / elif chain of lines 385-431 that runs
Strategy(pred_str, data_name, use_last_number) ==
  IF data_name \in ChoiceDatasets THEN "choice"
  ELSE IF Contains(pred_str, <<"f", "i", "n", "a", "l", " ", "a", "n", "s", "w", "e", "r", " ", "i", "s", " ", "$">>) /\ Contains(pred_str, <<"$", ".", " ", "I", " ", "h", "o", "p", "e">>)
  THEN "minerva"
  ELSE IF Contains(pred_str, <<"b", "o", "x", "e", "d">>) THEN "boxed"
  ELSE IF Contains(pred_str, <<"h", "e", " ", "a", "n", "s", "w", "e", "r", " ", "i", "s">>) THEN "he_answer_is"
  ELSE IF Contains(pred_str, <<"f", "i", "n", "a", "l", " ", "a", "n", "s", "w", "e", "r", " ", "i", "s">>) THEN "final_answer_is"
  ELSE IF Contains(pred_str, <<"U+7B54", "U+6848", "U+662F">>) THEN "localized"
  ELSE IF use_last_number THEN "last_number"
  ELSE "none"

\* pred as the chosen branch leaves it (lines 389-431)
RawCandidate(pred_str, strategy) ==
  CASE strategy = "minerva" ->
         Strip(BeforeFirst(AfterFirst(pred_str, <<"f", "i", "n", "a", "l", " ", "a", "n", "s", "w", "e", "r", " ", "i", "s", " ", "$">>), <<"$", ".", " ", "I", " ", "h", "o", "p", "e">>))
    [] strategy = "boxed" ->
         LET ans == AfterLast(pred_str, <<"b", "o", "x", "e", "d">>)
         IN  IF Len(ans) = 0 THEN <<>>
             ELSE IF ans[1] = "{" THEN BoxedBraceContent(ans)
             ELSE Strip(BeforeFirst(ans, <<"$">>))
    [] strategy = "he_answer_is" -> Strip(AfterLast(pred_str, <<"h", "e", " ", "a", "n", "s", "w", "e", "r", " ", "i", "s">>))
    [] strategy = "final_answer_is" -> Strip(AfterLast(pred_str, <<"f", "i", "n", "a", "l", " ", "a", "n", "s", "w", "e", "r", " ", "i", "s">>))
    [] strategy = "localized" ->
         Strip(BeforeFirst(
           Strip(Split(pred_str, <<"U+7B54", "U+6848", "U+662F">>)[2]), <<"\n", "\n">>))
    [] strategy = "last_number" -> LastNumberFrom(Replace(pred_str, <<",">>, <<>>), 1, <<>>)
    [] OTHER -> <<>>

\* re.sub(r"\n\s*", "", pred)
RECURSIVE DropNewlineRuns(_)
DropNewlineRuns(pred) ==
  LET i == Find(pred, <<"\n">>, 1)
  IN  IF i = 0 THEN pred
      ELSE Take(pred, i - 1) \o DropNewlineRuns(Drop(pred, RunEnd(pred, i + 1, Whitespace)))

\* lines 434-448: the choice post-processing and the clean-up
CleanUp(pred0, data_name) ==
  LET tmp == ChoiceLetterAt(Upper(pred0))
      p1  == IF data_name \in {"sat_math", "aqua"} \cup MmluDatasets
             THEN IF tmp # {} THEN <<Upper(pred0)[Max(tmp)]>>
                  ELSE StripSet(Strip(pred0), {"."})
             ELSE pred0
      p2  == DropNewlineRuns(p1)
      p3  == IF p2 # <<>> /\ p2[1] = ":" THEN Tail(p2) ELSE p2
      p4  == IF p3 # <<>> /\ p3[Len(p3)] = "." THEN Take(p3, Len(p3) - 1) ELSE p3
  IN  IF p4 # <<>> /\ p4[Len(p4)] = "/" THEN Take(p4, Len(p4) - 1) ELSE p4

\* extract_answer with the branch it took: [strategy, raw, out]
ExtractAnswerRun(pred_str0, data_name, use_last_number) ==
  LET pred_str == Replace(pred_str0, <<"U+043A", "U+0438">>, <<>>)
      strategy == Strategy(pred_str, data_name, use_last_number)
  IN  IF strategy = "choice"
      THEN LET r == choice_answer_clean(pred_str)
           IN  [strategy |-> strategy, raw |-> r, out |-> r]
      ELSE LET raw == CHOOSE r \in {RawCandidate(pred_str, strategy)} : TRUE
               cleaned == CHOOSE r \in {CleanUp(raw, data_name)} : TRUE
           IN  [strategy |-> strategy, raw |-> raw,
                out |-> strip_string(cleaned, data_name \in {"carp_en", "minerva_math"})]

extract_answer(pred_str, data_name, use_last_number) ==
  ExtractAnswerRun(pred_str, data_name, use_last_number).out

-----------------------------------------------------------------------------
(* hf_math_verify.py: extract_solution, _verify_with_sympy, _hf_verify.    *)

\* line 45: model_output[-300:]
TruncLen == 300

\* line 39
stop_words == << <<"<", "/", "s", ">">>, <<"<", "|", "i", "m", "_", "e", "n", "d", "|", ">">>, <<"<", "|", "e", "n", "d", "o", "f", "t", "e", "x", "t", "|", ">">>, <<"[", "E", "N", "D", "]">> >>

\* lines 40-42, from stop word k on
RECURSIVE CutStopWords(_, _)
CutStopWords(model_output0, k) ==
  IF k > Len(stop_words) THEN model_output0
  ELSE IF Contains(model_output0, stop_words[k])
       THEN CutStopWords(Strip(BeforeFirst(model_output0, stop_words[k])), k + 1)
       ELSE CutStopWords(model_output0, k + 1)

\* line 36: re.sub(r"^.*?<\|im_start\|>assistant", "<|im_start|>assistant", ...,
\* flags=re.DOTALL, count=1): the text before the first marker goes
DropPromptPrefix(response0) ==
  LET i == Find(response0, <<"<", "|", "i", "m", "_", "s", "t", "a", "r", "t", "|", ">", "a", "s", "s", "i", "s", "t", "a", "n", "t">>, 1)
  IN  IF i = 0 THEN response0 ELSE Drop(response0, i - 1)

\* a variant of LastChars that keeps the whole text
LastCharsAll(model_output0) == model_output0

\* line 45
LastChars(model_output0) ==
  IF Len(model_output0) <= TruncLen THEN model_output0
  ELSE Drop(model_output0, Len(model_output0) - TruncLen)

\* lines 36-45: the text that is handed to the extractor
TrimmedOutput(response0) == CutStopWords(DropPromptPrefix(response0), 1)

extract_solution(response0) ==
  CHOOSE es \in { [model_output |-> out, predict_answer |-> extract_answer(out, "math", FALSE)] :
                   out \in {LastChars(TrimmedOutput(response0))} } : TRUE

\* A value math_verify.parse can put in its result list: a sympy expression
\* (Basic / MatrixBase), known by an identity, or a string.
ExprValue(id) == [kind |-> "expr", id |-> id]

StrValue(text) == [kind |-> "str", text |-> text]

ListValue(items) == [kind |-> "list", items |-> items]

\* lines 57-64; eq is what sympy_expr_eq does on each pair of expressions:
\* "true", "false" or "raise"
compare_single(gold, target, eq) ==
  IF gold.kind = "expr" /\ target.kind = "expr"
  THEN eq[gold.id, target.id]
  ELSE IF gold.kind = "str" /\ target.kind = "str"
  THEN LET g == Strip(gold.text)
           t == Strip(target.text)
       IN  IF Len(g) > 0 /\ Len(t) > 0 /\ g = t THEN "true" ELSE "false"
  ELSE "false"

\* a variant of safe_compare without its try/except
compare_unguarded(g, t, eq) == compare_single(g, t, eq)

\* lines 66-70: an exception of compare_single is a False
safe_compare(g, t, eq) ==
  LET r == compare_single(g, t, eq)
  IN  IF r = "raise" THEN "false" ELSE r

\* lines 72-75
AsList(operand) == IF operand.kind = "list" THEN operand.items ELSE <<operand>>

\* line 77: any(... for g, t in product(gold, target)), from pair k on, in the
\* order of itertools.product; any() stops at the first True, and an exception
\* of the generator would leave it
RECURSIVE AnyPair(_, _, _, _)
AnyPair(gold, target, k, eq) ==
  IF k > Len(gold) * Len(target) THEN "false"
  ELSE LET g == gold[((k - 1) \div Len(target)) + 1]
           t == target[((k - 1) % Len(target)) + 1]
           r == safe_compare(g, t, eq)
       IN  IF r = "false" THEN AnyPair(gold, target, k + 1, eq) ELSE r

\* lines 51-77
_verify_with_sympy(gold, target, eq) == AnyPair(AsList(gold), AsList(target), 1, eq)

\* a variant of FastPath that never takes the fast path
FastPathNever(gold, target) == FALSE

\* line 83: the fast path of _hf_verify
FastPath(gold, target) == gold = target

\* variants of HfVerifyExcept: one that lets the exception go on to the
\* caller, one that returns True
HfVerifyReraise == [raised |-> TRUE, value |-> FALSE]

HfVerifyFailOpen == [raised |-> FALSE, value |-> TRUE]

\* lines 92-93: what _hf_verify does with an exception of its try block:
\* it returns False
HfVerifyExcept == [raised |-> FALSE, value |-> FALSE]

\* the pairs of expressions sympy_expr_eq is asked about
ExprPairs(gold, target) ==
  {<<AsList(gold)[i].id, AsList(target)[j].id>> :
     <<i, j>> \in {p \in (DOMAIN AsList(gold)) \X (DOMAIN AsList(target)) :
                    /\ AsList(gold)[p[1]].kind = "expr"
                    /\ AsList(target)[p[2]].kind = "expr"}}

\* what sympy_expr_eq can do on each of them
EqOutcomes(gold, target) == [ExprPairs(gold, target) -> {"true", "false", "raise"}]

\* lines 121-129: box-wrapping
BoxWrap(text) ==
  IF ~Contains(text, <<"\\", "b", "o", "x", "e", "d">>) THEN <<"\\", "b", "o", "x", "e", "d", "{">> \o text \o <<"}">> ELSE text

\* str(label): a label is a string or, as the ground truth of a data set
\* may be, a natural number below 10
LabelStr(l) ==
  IF l.kind = "int" THEN <<<<"0", "1", "2", "3", "4", "5", "6", "7", "8", "9">>[l.value + 1]>> ELSE l.text

\* `not label`
LabelFalsy(l) ==
  IF l.kind = "int" THEN l.value = 0 ELSE l.text = <<>>

-----------------------------------------------------------------------------
(* local_search_server.py: local_search.  A decoded JSON body is a tagged  *)
(* value; an object carries a function from its keys to their values.      *)

JNull == [t |-> "null"]

JNum == [t |-> "num"]                         \* a non-zero number

JStr(s) == [t |-> "str", chars |-> s]

JList(l) == [t |-> "list", items |-> l]

JObj(f) == [t |-> "obj", fields |-> f]

\* Python truth value of a decoded JSON value
Truthy(j) ==
  CASE j.t = "null" -> FALSE
    [] j.t = "num"  -> TRUE
    [] j.t = "str"  -> j.chars # <<>>
    [] j.t = "list" -> j.items # <<>>
    [] j.t = "obj"  -> DOMAIN j.fields # {}

\* j[0] of line 80: <<TRUE, value>>, or <<FALSE, exception>>
FirstElement(j) ==
  CASE j.t = "list" -> IF j.items = <<>> THEN <<FALSE, "IndexError">>
                       ELSE <<TRUE, j.items[1]>>
    [] j.t = "str"  -> IF j.chars = <<>> THEN <<FALSE, "IndexError">>
                       ELSE <<TRUE, JStr(<<j.chars[1]>>)>>
    [] j.t = "obj"  -> <<FALSE, "KeyError">>
    [] OTHER        -> <<FALSE, "TypeError">>

\* the items `for item in j` yields: <<TRUE, items>>, or <<FALSE, exception>>.
\* A string yields its characters and an object its keys: strings, which the
\* loop body skips.
IterItems(j) ==
  CASE j.t = "list" -> <<TRUE, j.items>>
    [] j.t = "str"  -> <<TRUE, [i \in 1..Len(j.chars) |-> JStr(<<j.chars[i]>>)]>>
    [] j.t = "obj"  -> <<TRUE, [i \in 1..Cardinality(DOMAIN j.fields) |-> JStr(<<"k">>)]>>
    [] OTHER        -> <<FALSE, "TypeError">>

\* line 80: result.get("result", [[]])[0]
RetrievalResults(body) ==
  IF body.t # "obj" THEN <<FALSE, "AttributeError">>
  ELSE IF "result" \in DOMAIN body.fields THEN FirstElement(body.fields["result"])
  ELSE <<TRUE, JList(<<>>)>>

\* lines 95-111 on a string content
FormatContent(content) ==
  LET i      == Find(content, <<"\n">>, 1)
      line0  == IF i = 0 THEN content ELSE Take(content, i - 1)
      title0 == StripSet(Strip(line0), {"\""})
      text0  == IF i = 0 THEN <<>> ELSE Strip(Drop(content, i))
      title  == IF title0 # <<>> THEN <<"\"">> \o title0 \o <<"\"">> ELSE <<"\"", "N", "o", " ", "t", "i", "t", "l", "e", ".", "\"">>
      text   == IF text0 = <<>> THEN <<"N", "o", " ", "s", "n", "i", "p", "p", "e", "t", " ", "a", "v", "a", "i", "l", "a", "b", "l", "e", ".">> ELSE text0
  IN  title \o <<"\n">> \o text

\* lines 89-120 on one item: <<TRUE, contexts to append>>, or
\* <<FALSE, exception>>
FormatItem(item) ==
  IF item.t # "obj" THEN <<TRUE, <<>> >>
  ELSE LET content == IF "contents" \in DOMAIN item.fields THEN item.fields["contents"]
                      ELSE JStr(<<>>)
       IN  IF ~Truthy(content)
           THEN <<TRUE, <<<<"\"", "N", "o", " ", "t", "i", "t", "l", "e", ".", "\"", "\n", "N", "o", " ", "s", "n", "i", "p", "p", "e", "t", " ", "a", "v", "a", "i", "l", "a", "b", "l", "e", ".">>>> >>
           ELSE IF content.t # "str" THEN <<FALSE, "AttributeError">>
           ELSE <<TRUE, <<FormatContent(content.chars)>> >>

-----------------------------------------------------------------------------
(* Specification Spec: one call of get_dapo_math_reward(response, label).  *)

\* Bounds of the inputs
PadSlack == 1

MaxParsed == 1

Filler(n) == [i \in 1..n |-> "y"]

\* A response is  head . body . filler . tail : a prompt part that ends with
\* the assistant-turn marker (or nothing), an answer (or none), filler text
\* whose length puts the answer at the edge of the last TruncLen characters,
\* and an end with or without stop tokens.
Heads == { <<>>, <<"T", "h", "e", " ", "a", "n", "s", "w", "e", "r", " ", "i", "s", " ", "8", ".", "<", "|", "i", "m", "_", "s", "t", "a", "r", "t", "|", ">", "a", "s", "s", "i", "s", "t", "a", "n", "t", "\n">> }

Bodies == { <<>>, <<"\\", "b", "o", "x", "e", "d", "{", "7", "}">>, <<"T", "h", "e", " ", "a", "n", "s", "w", "e", "r", " ", "i", "s", " ", "7">>, <<"\\", "b", "o", "x", "e", "d", "{", "7", ".", "0", "}">> }

PadLens == {0} \cup ((TruncLen - 8 - PadSlack) .. (TruncLen - 8 + PadSlack))

Tails == { <<>>, <<" ", "\n">>, <<"<", "|", "i", "m", "_", "e", "n", "d", "|", ">", " ", "<", "/", "s", ">", "\\", "b", "o", "x", "e", "d", "{", "8", "}">> }

Responses ==
  { h \o b \o Filler(n) \o t : h \in Heads, b \in Bodies, n \in PadLens, t \in Tails }

StrLabel(text) == [kind |-> "str", text |-> text]

IntLabel(value) == [kind |-> "int", value |-> value]

Labels ==
  { StrLabel(<<>>), StrLabel(<<"7">>), StrLabel(<<"8">>), StrLabel(<<"7", ".", "0">>),
    StrLabel(<<"\\", "b", "o", "x", "e", "d", "{", "7", "}">>), IntLabel(0), IntLabel(7) }

\* What math_verify.parse can do: raise, or return a list of expressions and
\* strings
ParsedValues == { ExprValue(1), ExprValue(2), StrValue(<<"7">>) }

RECURSIVE SeqsUpTo(_, _)
SeqsUpTo(S, n) ==
  IF n = 0 THEN { <<>> }
  ELSE LET shorter == SeqsUpTo(S, n - 1)
       IN  shorter \cup { Append(s, x) : s \in {q \in shorter : Len(q) = n - 1}, x \in S }

ParseRaises == [kind |-> "raise"]

ParseOutcomes == { ParseRaises } \cup { ListValue(l) : l \in SeqsUpTo(ParsedValues, MaxParsed) }

NotParsed == [kind |-> "none"]

RewardInit ==
  /\ pc = "start"
  /\ response \in Responses
  /\ label \in Labels
  /\ model_output = <<>>
  /\ extracted_answer = <<>>
  /\ boxed_answer = <<>>
  /\ boxed_label = <<>>
  /\ parsed_target = NotParsed
  /\ parsed_gold = NotParsed
  /\ parse_calls = 0
  /\ result = -1
  /\ raised = "none"
  /\ arg = <<>>
  /\ trace = [parse_raised |-> FALSE]
  /\ idx = 0
  /\ contexts = <<>>

\* lines 110-113
CheckLabel ==
  /\ pc = "start"
  /\ IF LabelFalsy(label)
     THEN /\ result' = 0
          /\ pc' = "done"
          /\ label' = label
     ELSE /\ label' = StrLabel(LabelStr(label))
          /\ pc' = "extract"
          /\ result' = result
  /\ UNCHANGED <<response, model_output, extracted_answer, boxed_answer, boxed_label,
                 parsed_target, parsed_gold, parse_calls, raised, arg, trace, idx,
                 contexts>>

\* line 116
ExtractSolution ==
  /\ pc = "extract"
  /\ \E es \in {extract_solution(response)} :
       /\ model_output' = es.model_output
       /\ extracted_answer' = es.predict_answer
  /\ pc' = "extracted"
  /\ UNCHANGED <<response, label, boxed_answer, boxed_label, parsed_target,
                 parsed_gold, parse_calls, result, raised, arg, trace, idx, contexts>>

\* lines 117-129
CheckExtracted ==
  /\ pc = "extracted"
  /\ IF extracted_answer = <<>>
     THEN /\ result' = 0
          /\ pc' = "done"
          /\ UNCHANGED <<boxed_answer, boxed_label>>
     ELSE /\ boxed_answer' = BoxWrap(extracted_answer)
          /\ boxed_label' = BoxWrap(label.text)
          /\ pc' = "verify"
          /\ result' = result
  /\ UNCHANGED <<response, label, model_output, extracted_answer, parsed_target,
                 parsed_gold, parse_calls, raised, arg, trace, idx, contexts>>

\* the return of _hf_verify(gold, target) to line 134
ReturnReward(is_correct) ==
  /\ result' = IF is_correct THEN 1 ELSE 0
  /\ raised' = raised
  /\ pc' = "done"

\* lines 92-93 and their return to line 134
HandleException ==
  IF HfVerifyExcept.raised
  THEN /\ raised' = "Exception"
       /\ result' = result
       /\ pc' = "done"
  ELSE ReturnReward(HfVerifyExcept.value)

\* lines 83-84
HfVerifyEnter ==
  /\ pc = "verify"
  /\ IF FastPath(boxed_label, boxed_answer)
     THEN ReturnReward(TRUE)
     ELSE /\ pc' = "parse_target"
          /\ UNCHANGED <<result, raised>>
  /\ UNCHANGED <<response, label, model_output, extracted_answer, boxed_answer,
                 boxed_label, parsed_target, parsed_gold, parse_calls, arg, trace,
                 idx, contexts>>

\* line 89
ParseTarget ==
  /\ pc = "parse_target"
  /\ parse_calls' = parse_calls + 1
  /\ \E out \in ParseOutcomes :
       IF out = ParseRaises
       THEN /\ HandleException
            /\ trace' = [trace EXCEPT !.parse_raised = TRUE]
            /\ parsed_target' = parsed_target
       ELSE /\ parsed_target' = out
            /\ pc' = "parse_gold"
            /\ UNCHANGED <<result, raised, trace>>
  /\ UNCHANGED <<response, label, model_output, extracted_answer, boxed_answer,
                 boxed_label, parsed_gold, arg, idx, contexts>>

\* line 90
ParseGold ==
  /\ pc = "parse_gold"
  /\ parse_calls' = parse_calls + 1
  /\ \E out \in ParseOutcomes :
       IF out = ParseRaises
       THEN /\ HandleException
            /\ trace' = [trace EXCEPT !.parse_raised = TRUE]
            /\ parsed_gold' = parsed_gold
       ELSE /\ parsed_gold' = out
            /\ pc' = "compare"
            /\ UNCHANGED <<result, raised, trace>>
  /\ UNCHANGED <<response, label, model_output, extracted_answer, boxed_answer,
                 boxed_label, parsed_target, arg, idx, contexts>>

\* line 91
HfVerifyCompare ==
  /\ pc = "compare"
  /\ \E eq \in EqOutcomes(parsed_gold, parsed_target) :
       \E r \in {_verify_with_sympy(parsed_gold, parsed_target, eq)} :
          IF r = "raise" THEN HandleException ELSE ReturnReward(r = "true")
  /\ UNCHANGED <<response, label, model_output, extracted_answer, boxed_answer,
                 boxed_label, parsed_target, parsed_gold, parse_calls, arg, trace,
                 idx, contexts>>

Next ==
  \/ CheckLabel
  \/ ExtractSolution
  \/ CheckExtracted
  \/ HfVerifyEnter
  \/ ParseTarget
  \/ ParseGold
  \/ HfVerifyCompare

Spec == RewardInit /\ [][Next]_vars

-----------------------------------------------------------------------------
(* Specification SpecVerify: one call of _verify_with_sympy(gold, target). *)

MaxList == 2

\* expressions, and strings with and without surrounding whitespace
VerifyValues ==
  { ExprValue(1), ExprValue(2), StrValue(<<"a">>), StrValue(<<" ", "a">>), StrValue(<<" ">>) }

\* an operand is a single value or a list of values
VerifyOperands ==
  VerifyValues \cup { ListValue(l) : l \in SeqsUpTo(VerifyValues, MaxList) }

VerifyInit ==
  /\ pc = "start"
  /\ arg \in VerifyOperands \X VerifyOperands
  /\ response = <<>>
  /\ label = <<>>
  /\ model_output = <<>>
  /\ extracted_answer = <<>>
  /\ boxed_answer = <<>>
  /\ boxed_label = <<>>
  /\ parsed_target = NotParsed
  /\ parsed_gold = NotParsed
  /\ parse_calls = 0
  /\ result = -1
  /\ raised = "none"
  /\ trace = <<>>
  /\ idx = 0
  /\ contexts = <<>>

\* lines 51-77, with gold = arg[1] and target = arg[2]; trace keeps what
\* sympy_expr_eq did on each pair of expressions
VerifyWithSympy ==
  /\ pc = "start"
  /\ \E eq \in EqOutcomes(arg[1], arg[2]) :
       \E r \in {_verify_with_sympy(arg[1], arg[2], eq)} :
          /\ trace' = eq
          /\ IF r = "raise"
             THEN /\ raised' = "Exception"
                  /\ result' = result
             ELSE /\ raised' = raised
                  /\ result' = IF r = "true" THEN 1 ELSE 0
  /\ pc' = "done"
  /\ UNCHANGED <<response, label, model_output, extracted_answer, boxed_answer,
                 boxed_label, parsed_target, parsed_gold, parse_calls, arg, idx,
                 contexts>>

VerifyNext == VerifyWithSympy

SpecVerify == VerifyInit /\ [][VerifyNext]_vars

-----------------------------------------------------------------------------
(* Specification SpecExtract: one call of                                  *)
(* extract_answer(pred_str, data_name, use_last_number).                   *)

MaxMarkers == 3

MaxBraceToks == 4

\* concatenations of at most n of the texts of the sequence frags
RECURSIVE Concats(_, _)
Concats(frags, n) ==
  IF n = 0 THEN { <<>> }
  ELSE Concats(frags, n - 1)
         \cup { s \o frags[k] : s \in Concats(frags, n - 1), k \in DOMAIN frags }

\* texts with the answer markers of the strategies, in every order
MarkerFrags ==
  << <<"f", "i", "n", "a", "l", " ", "a", "n", "s", "w", "e", "r", " ", "i", "s", " ", "$", "5">>, <<"$", ".", " ", "I", " ", "h", "o", "p", "e">>, <<"\\", "b", "o", "x", "e", "d", "{", "3", "}">>, <<" ", "T", "h", "e", " ", "a", "n", "s", "w", "e", "r", " ", "i", "s", " ", "4">>,
     <<" ", "f", "i", "n", "a", "l", " ", "a", "n", "s", "w", "e", "r", " ", "i", "s", " ", "6">>, <<"U+7B54", "U+6848", "U+662F", "7">>, <<" ", "2", " ">> >>

MarkerInputs == Concats(MarkerFrags, MaxMarkers)

\* \boxed followed by braces, balanced or not, nested or not
BraceToks == << <<"{">>, <<"}">>, <<"{", "a", "}">>, <<"+", "{", "b", "}">> >>

BraceInputs == { <<"\\", "b", "o", "x", "e", "d">> \o s : s \in Concats(BraceToks, MaxBraceToks) }

\* a data set of the general branch, one that skips the units, one of the
\* multiple-choice data sets
ExtractDataNames == { "math", "minerva_math", "sat_math" }

ExtractArgs ==
  (MarkerInputs \X ExtractDataNames \X BOOLEAN) \cup (BraceInputs \X {"math"} \X {FALSE})

ExtractInit ==
  /\ pc = "start"
  /\ arg \in ExtractArgs
  /\ response = <<>>
  /\ label = <<>>
  /\ model_output = <<>>
  /\ extracted_answer = <<>>
  /\ boxed_answer = <<>>
  /\ boxed_label = <<>>
  /\ parsed_target = NotParsed
  /\ parsed_gold = NotParsed
  /\ parse_calls = 0
  /\ result = -1
  /\ raised = "none"
  /\ trace = [strategy |-> "none", raw |-> <<>>]
  /\ idx = 0
  /\ contexts = <<>>

\* lines 371-451; trace keeps the branch taken and the candidate it produced
ExtractAnswer ==
  /\ pc = "start"
  /\ \E run \in {ExtractAnswerRun(arg[1], arg[2], arg[3])} :
       /\ extracted_answer' = run.out
       /\ trace' = [strategy |-> run.strategy, raw |-> run.raw]
  /\ pc' = "done"
  /\ UNCHANGED <<response, label, model_output, boxed_answer, boxed_label,
                 parsed_target, parsed_gold, parse_calls, result, raised, arg, idx,
                 contexts>>

ExtractNext == ExtractAnswer

SpecExtract == ExtractInit /\ [][ExtractNext]_vars

-----------------------------------------------------------------------------
(* Specification SpecNorm: strip_string(string, skip_unit), applied to a   *)
(* string and then to its own result.                                      *)

MaxNormFrags == 4

\* digits, signs and points of numerals, a fraction slash and the two LaTeX
\* fraction spellings that strip_string rewrites
NormFrags == << <<"0">>, <<"1">>, <<".">>, <<"-">>, <<"/">>, <<"t">>, <<"d", "f", "r", "a", "c">> >>

NormInputs == Concats(NormFrags, MaxNormFrags)

NormInit ==
  /\ pc = "start"
  /\ arg \in NormInputs \X BOOLEAN
  /\ response = <<>>
  /\ label = <<>>
  /\ model_output = <<>>
  /\ extracted_answer = <<>>
  /\ boxed_answer = <<>>
  /\ boxed_label = <<>>
  /\ parsed_target = NotParsed
  /\ parsed_gold = NotParsed
  /\ parse_calls = 0
  /\ result = -1
  /\ raised = "none"
  /\ trace = <<>>
  /\ idx = 0
  /\ contexts = <<>>

\* lines 217-326 on the argument; trace keeps the results in order
Normalize ==
  /\ pc = "start"
  /\ trace' = << strip_string(arg[1], arg[2]) >>
  /\ pc' = "once"
  /\ UNCHANGED <<response, label, model_output, extracted_answer, boxed_answer,
                 boxed_label, parsed_target, parsed_gold, parse_calls, result,
                 raised, arg, idx, contexts>>

\* lines 217-326 on the result of the first application
NormalizeAgain ==
  /\ pc = "once"
  /\ trace' = Append(trace, strip_string(trace[1], arg[2]))
  /\ pc' = "twice"
  /\ UNCHANGED <<response, label, model_output, extracted_answer, boxed_answer,
                 boxed_label, parsed_target, parsed_gold, parse_calls, result,
                 raised, arg, idx, contexts>>

NormNext == Normalize \/ NormalizeAgain

SpecNorm == NormInit /\ [][NormNext]_vars

-----------------------------------------------------------------------------
(* Specification SpecSearch: one call of local_search(query).              *)

MaxItems == 2

\* what the "contents" key of a retrieved item can hold
SearchContents ==
  { JStr(<<>>), JStr(<<"\"", "T", "\"", "\n", "b", "o", "d", "y">>), JStr(<<" ", "T", " ">>), JStr(<<"\"", "\"", "\n", " ">>),
    JNull, JNum, JList(<<JNum>>) }

\* the items of a result list: objects with and without contents, and values
\* that are no objects
SearchItems ==
  { JObj([contents |-> c]) : c \in SearchContents }
    \cup { JObj([id |-> JNum]), JStr(<<"x">>), JNull }

\* what result[0] can be
SearchInner ==
  { JList(l) : l \in SeqsUpTo(SearchItems, MaxItems) }
    \cup { JNull, JNum, JStr(<<"a", "b">>), JObj([id |-> JNum]) }

\* what the "result" key of the body can hold
SearchResultValues ==
  { JList(<<inner>>) : inner \in SearchInner }
    \cup { JList(<<>>), JNull, JNum, JStr(<<>>), JStr(<<"x">>), JObj([id |-> JNum]) }

\* the decoded bodies of a 2xx response
SearchBodies ==
  { JObj([result |-> r]) : r \in SearchResultValues }
    \cup { JObj([error |-> JStr(<<"x">>)]), JNull, JNum, JStr(<<"x">>), JList(<<>>),
           JList(<<JNum>>) }

\* the failures inside the try block of lines 69-76: the connection, the
\* timeout, raise_for_status() on a non-2xx status, resp.json() on a body that
\* is no JSON
TransportFailures == { "ClientConnectorError", "TimeoutError", "ClientResponseError",
                       "ContentTypeError" }

SearchInit ==
  /\ pc = "start"
  /\ arg = JNull
  /\ response = <<>>
  /\ label = <<>>
  /\ model_output = <<>>
  /\ extracted_answer = <<>>
  /\ boxed_answer = <<>>
  /\ boxed_label = <<>>
  /\ parsed_target = NotParsed
  /\ parsed_gold = NotParsed
  /\ parse_calls = 0
  /\ result = -1
  /\ raised = "none"
  /\ trace = [failure |-> "none", retrieval_results |-> JNull]
  /\ idx = 0
  /\ contexts = <<>>

\* lines 69-73: the request succeeded and its body was decoded (arg)
PostOk ==
  /\ pc = "start"
  /\ arg' \in SearchBodies
  /\ pc' = "parse"
  /\ UNCHANGED <<response, label, model_output, extracted_answer, boxed_answer,
                 boxed_label, parsed_target, parsed_gold, parse_calls, result,
                 raised, trace, idx, contexts>>

\* lines 69-76: the request failed inside the try block: return []
PostFails ==
  /\ pc = "start"
  /\ \E f \in TransportFailures : trace' = [trace EXCEPT !.failure = f]
  /\ contexts' = <<>>
  /\ pc' = "done"
  /\ UNCHANGED <<response, label, model_output, extracted_answer, boxed_answer,
                 boxed_label, parsed_target, parsed_gold, parse_calls, result,
                 raised, arg, idx>>

\* line 80, and the start of the loop of line 86
ParseResults ==
  /\ pc = "parse"
  /\ \E r \in {RetrievalResults(arg)} :
         IF ~r[1]
         THEN /\ raised' = r[2]
              /\ pc' = "done"
              /\ UNCHANGED <<trace, idx>>
         ELSE /\ trace' = [trace EXCEPT !.retrieval_results = r[2]]
              /\ IF IterItems(r[2])[1]
                 THEN /\ pc' = "loop"
                      /\ idx' = 1
                      /\ raised' = raised
                 ELSE /\ raised' = IterItems(r[2])[2]
                      /\ pc' = "done"
                      /\ idx' = idx
  /\ UNCHANGED <<response, label, model_output, extracted_answer, boxed_answer,
                 boxed_label, parsed_target, parsed_gold, parse_calls, result, arg,
                 contexts>>

\* lines 86-120: one iteration of the loop
FormatNextItem ==
  /\ pc = "loop"
  /\ idx <= Len(IterItems(trace.retrieval_results)[2])
  /\ \E f \in {FormatItem(IterItems(trace.retrieval_results)[2][idx])} :
         IF f[1]
         THEN /\ contexts' = contexts \o f[2]
              /\ idx' = idx + 1
              /\ UNCHANGED <<pc, raised>>
         ELSE /\ raised' = f[2]
              /\ pc' = "done"
              /\ UNCHANGED <<contexts, idx>>
  /\ UNCHANGED <<response, label, model_output, extracted_answer, boxed_answer,
                 boxed_label, parsed_target, parsed_gold, parse_calls, result, arg,
                 trace>>

\* line 123
ReturnContexts ==
  /\ pc = "loop"
  /\ idx > Len(IterItems(trace.retrieval_results)[2])
  /\ pc' = "done"
  /\ UNCHANGED <<response, label, model_output, extracted_answer, boxed_answer,
                 boxed_label, parsed_target, parsed_gold, parse_calls, result,
                 raised, arg, trace, idx, contexts>>

SearchNext ==
  \/ PostOk
  \/ PostFails
  \/ ParseResults
  \/ FormatNextItem
  \/ ReturnContexts

SpecSearch == SearchInit /\ [][SearchNext]_vars

-----------------------------------------------------------------------------
(* Specification SpecBrackets: strip_string(string, skip_unit) in three    *)
(* steps, so that the string before and after the bracket pass (lines      *)
(* 279-290) is part of the state.                                          *)

MaxBracketFrags == 3

\* the three kinds of brackets, alphanumeric texts and a separator
BracketFrags ==
  << <<"(">>, <<")">>, <<"[">>, <<"]">>, <<"{">>, <<"}">>, <<"5">>, <<"1", "2">>, <<"a">>, <<",">> >>

BracketInputs == Concats(BracketFrags, MaxBracketFrags)

\* the passes first..last of strip_string, applied in order
RECURSIVE PassRange(_, _, _, _)
PassRange(string, skip_unit, first, last) ==
  IF last < first THEN string
  ELSE CHOOSE r \in {Pass(last, v, skip_unit) :
                       v \in {PassRange(string, skip_unit, first, last - 1)}} : TRUE

BracketsInit ==
  /\ pc = "start"
  /\ arg \in BracketInputs \X BOOLEAN
  /\ response = <<>>
  /\ label = <<>>
  /\ model_output = <<>>
  /\ extracted_answer = <<>>
  /\ boxed_answer = <<>>
  /\ boxed_label = <<>>
  /\ parsed_target = NotParsed
  /\ parsed_gold = NotParsed
  /\ parse_calls = 0
  /\ result = -1
  /\ raised = "none"
  /\ trace = <<>>
  /\ idx = 0
  /\ contexts = <<>>

\* lines 219-276: everything before the bracket test
NormalizeBeforeBrackets ==
  /\ pc = "start"
  /\ trace' = << PassRange(arg[1], arg[2], 1, 10) >>
  /\ pc' = "before_brackets"
  /\ UNCHANGED <<response, label, model_output, extracted_answer, boxed_answer,
                 boxed_label, parsed_target, parsed_gold, parse_calls, result,
                 raised, arg, idx, contexts>>

\* lines 279-290: the bracket test and string[1:-1]
RemoveEnclosingBrackets ==
  /\ pc = "before_brackets"
  /\ trace' = Append(trace, NormBrackets(trace[1]))
  /\ pc' = "after_brackets"
  /\ UNCHANGED <<response, label, model_output, extracted_answer, boxed_answer,
                 boxed_label, parsed_target, parsed_gold, parse_calls, result,
                 raised, arg, idx, contexts>>

\* lines 292-326: the rest of strip_string, and its return value
NormalizeAfterBrackets ==
  /\ pc = "after_brackets"
  /\ trace' = Append(trace, PassRange(trace[2], arg[2], 12, 16))
  /\ pc' = "done"
  /\ UNCHANGED <<response, label, model_output, extracted_answer, boxed_answer,
                 boxed_label, parsed_target, parsed_gold, parse_calls, result,
                 raised, arg, idx, contexts>>

BracketsNext ==
  \/ NormalizeBeforeBrackets
  \/ RemoveEnclosingBrackets
  \/ NormalizeAfterBrackets

SpecBrackets == BracketsInit /\ [][BracketsNext]_vars

-----------------------------------------------------------------------------
(* Properties of get_dapo_math_reward, checked under Spec.                 *)

\* The stop tokens of the reward function
StopTokens == { <<"<", "/", "s", ">">>, <<"<", "|", "i", "m", "_", "e", "n", "d", "|", ">">>, <<"<", "|", "e", "n", "d", "o", "f", "t", "e", "x", "t", "|", ">">>, <<"[", "E", "N", "D", "]">> }

\* The text that remains of a response once the text before the first
\* assistant-turn marker is dropped and the rest is cut at the first stop token
\* (and, if it was cut, stripped of surrounding whitespace)
TrimmedText(text) ==
  LET m     == Find(text, <<"<", "|", "i", "m", "_", "s", "t", "a", "r", "t", "|", ">", "a", "s", "s", "i", "s", "t", "a", "n", "t">>, 1)
      turn  == IF m = 0 THEN text ELSE SubSeq(text, m, Len(text))
      stops == { Find(turn, tok, 1) : tok \in StopTokens } \ {0}
  IN  IF stops = {} THEN turn ELSE Strip(SubSeq(turn, 1, Min(stops) - 1))

\* The last n characters of a text
Suffix(text, n) ==
  IF Len(text) <= n THEN text ELSE SubSeq(text, Len(text) - n + 1, Len(text))

\* A text in which the extractor's "math" strategies find an answer marker
HasAnswerMarker(text) ==
  \/ Contains(text, <<"b", "o", "x", "e", "d">>)
  \/ Contains(text, <<"h", "e", " ", "a", "n", "s", "w", "e", "r", " ", "i", "s">>)
  \/ Contains(text, <<"f", "i", "n", "a", "l", " ", "a", "n", "s", "w", "e", "r", " ", "i", "s">>)
  \/ Contains(text, <<"U+7B54", "U+6848", "U+662F">>)

C4_FastPath ==
  (pc = "done" /\ boxed_answer # <<>> /\ boxed_answer = boxed_label) =>
     (result = 1 /\ parse_calls = 0)

\* C4 witness: the candidate 7 met the unboxed label 7; both were wrapped and
\* the call returned 1 without a parse.
C4_FastPathTaken ==
  /\ pc = "done"
  /\ extracted_answer = <<"7">>
  /\ label = StrLabel(<<"7">>)
  /\ boxed_answer = <<"\\", "b", "o", "x", "e", "d", "{", "7", "}">>
  /\ boxed_label = <<"\\", "b", "o", "x", "e", "d", "{", "7", "}">>
  /\ result = 1
  /\ parse_calls = 0

\* C6: if math_verify.parse raised on the candidate or on the gold operand,
\* the exception is swallowed and the reward is 0.
C6_ParseFailsClosed ==
  (pc = "done" /\ trace.parse_raised) => (result = 0 /\ raised = "none")

\* C6 witness: the parse of the candidate raised, on the first call.
C6_TargetParseRaised ==
  /\ pc = "done"
  /\ trace.parse_raised
  /\ parse_calls = 1
  /\ parsed_target = NotParsed

\* C8: the label is normalized as the candidate is: the gold operand handed to
\* the equivalence check is the box-wrapped strip_string of the label.
C8_LabelNormalized ==
  pc = "verify" => boxed_label = BoxWrap(strip_string(label.text, FALSE))

\* C8, the case of a label that its normal form differs from: the candidate
\* 7.0 was normalized to 7, the label 7.0 was wrapped as it is.
C8_RawLabelCompared ==
  /\ pc = "verify"
  /\ label = StrLabel(<<"7", ".", "0">>)
  /\ boxed_label = <<"\\", "b", "o", "x", "e", "d", "{", "7", ".", "0", "}">>
  /\ boxed_answer = <<"\\", "b", "o", "x", "e", "d", "{", "7", "}">>
  /\ strip_string(label.text, FALSE) = <<"7">>

-----------------------------------------------------------------------------
(* Properties of _verify_with_sympy, checked under SpecVerify.             *)

\* an operand as the list of its candidates
Candidates(operand) == IF operand.kind = "list" THEN operand.items ELSE <<operand>>

\* a pair of expressions on which sympy_expr_eq answered True
SymbolicEqual(g, t, eq) ==
  g.kind = "expr" /\ t.kind = "expr" /\ eq[g.id, t.id] = "true"

\* C5 (as amended): _verify_with_sympy promotes a non-list operand to a
\* singleton list and returns true exactly when some pair of gold x target
\* compares equal: two expressions that sympy_expr_eq finds equal, or two
\* strings that are equal and non-empty once their surrounding whitespace is
\* stripped; a pair of mixed kinds, and a pair on which the comparison raised,
\* is not equal, and the other pairs are still compared.
C5_AnyPairStripped ==
  pc = "done" =>
    /\ raised = "none"
    /\ (result = 1) <=>
         \E i \in DOMAIN Candidates(arg[1]), j \in DOMAIN Candidates(arg[2]) :
            LET g == Candidates(arg[1])[i]
                t == Candidates(arg[2])[j]
            IN  \/ SymbolicEqual(g, t, trace)
                \/ /\ g.kind = "str"
                   /\ t.kind = "str"
                   /\ Strip(g.text) # <<>>
                   /\ Strip(g.text) = Strip(t.text)

\* C5 witness: the comparison of the first pair raised, the second pair was
\* still compared and made the result true.
C5_RaiseThenEqual ==
  /\ pc = "done"
  /\ result = 1
  /\ arg[1] = ListValue(<<ExprValue(1), ExprValue(2)>>)
  /\ arg[2] = ExprValue(1)
  /\ trace[1, 1] = "raise"
  /\ trace[2, 1] = "true"

\* C5 (as stated): the same, with two strings equal when they are non-empty
\* and equal as they are.
C5_AnyPairVerbatim ==
  pc = "done" =>
    /\ raised = "none"
    /\ (result = 1) <=>
         \E i \in DOMAIN Candidates(arg[1]), j \in DOMAIN Candidates(arg[2]) :
            LET g == Candidates(arg[1])[i]
                t == Candidates(arg[2])[j]
            IN  \/ SymbolicEqual(g, t, trace)
                \/ /\ g.kind = "str"
                   /\ t.kind = "str"
                   /\ g.text # <<>>
                   /\ g.text = t.text

-----------------------------------------------------------------------------
(* Properties of extract_answer, checked under SpecExtract.                *)

\* the text after the last occurrence of "boxed"
AfterLastBoxed(text) == SubSeq(text, FindLast(text, <<"b", "o", "x", "e", "d">>) + 5, Len(text))

\* number of braces opened and not closed in the first i characters
BraceDepth(text, i) ==
  Cardinality({j \in 1..i : text[j] = "{"}) - Cardinality({j \in 1..i : text[j] = "}"})

\* the characters between the opening brace text[1] and its matching closing
\* brace, or all the characters after the opening brace when none matches
BetweenMatchingBraces(text) ==
  LET closing == {i \in 2..Len(text) : BraceDepth(text, i) = 0 /\ BraceDepth(text, i - 1) = 1}
  IN  IF closing = {} THEN SubSeq(text, 2, Len(text))
      ELSE SubSeq(text, 2, Min(closing) - 1)

\* C3: when the text after the last "boxed" starts with "{" (and the boxed
\* strategy is the one selected), extract_answer returns the characters between
\* that brace and its matching closing brace, nested pairs verbatim, or what
\* follows the brace when no closing brace matches; it does not raise.
C3_BoxedContentVerbatim ==
  (/\ pc = "done"
   /\ trace.strategy = "boxed"
   /\ AfterLastBoxed(arg[1]) # <<>>
   /\ AfterLastBoxed(arg[1])[1] = "{")
  => /\ extracted_answer = BetweenMatchingBraces(AfterLastBoxed(arg[1]))
     /\ raised = "none"

\* C3, the case of the claim: \boxed{{a}+{b}} was extracted.
C3_NestedBracesCase ==
  /\ pc = "done"
  /\ arg[1] = <<"\\", "b", "o", "x", "e", "d", "{", "{", "a", "}", "+", "{", "b", "}", "}">>
  /\ trace.strategy = "boxed"
  /\ trace.raw = <<"{", "a", "}", "+", "{", "b", "}">>

\* the first strategy, in the stated priority order, whose condition holds
StatedStrategy(text, data_name, use_last_number) ==
  LET open  == Find(text, <<"f", "i", "n", "a", "l", " ", "a", "n", "s", "w", "e", "r", " ", "i", "s", " ", "$">>, 1)
      close == IF open = 0 THEN 0 ELSE Find(text, <<"$", ".", " ", "I", " ", "h", "o", "p", "e">>, open + 17)
  IN  IF data_name \in {"mmlu_stem", "sat_math", "aqua", "gaokao2023"} THEN "choice"
      ELSE IF open # 0 /\ close # 0 THEN "minerva"
      ELSE IF Contains(text, <<"b", "o", "x", "e", "d">>) THEN "boxed"
      ELSE IF Contains(text, <<"h", "e", " ", "a", "n", "s", "w", "e", "r", " ", "i", "s">>) \/ Contains(text, <<"f", "i", "n", "a", "l", " ", "a", "n", "s", "w", "e", "r", " ", "i", "s">>)
      THEN "answer_is"
      ELSE IF Contains(text, <<"U+7B54", "U+6848", "U+662F">>) THEN "localized"
      ELSE IF use_last_number THEN "last_number"
      ELSE "none"

\* the strategies of the model under the names of the claim
StrategyClass(strategy) ==
  IF strategy \in {"he_answer_is", "final_answer_is"} THEN "answer_is" ELSE strategy

\* C7: extract_answer applies the first strategy, in the order multiple-choice
\* > Minerva > boxed > answer-is marker > localized marker > last number (if
\* enabled, else the empty string), whose condition holds, and the Minerva
\* strategy only when "$. I hope" occurs after "final answer is $".
C7_StrategyPriority ==
  pc = "done" =>
    /\ StrategyClass(trace.strategy) = StatedStrategy(arg[1], arg[2], arg[3])
    /\ trace.strategy = "none" => extracted_answer = <<>>

\* C7, the case of the closing marker before the opening one
C7_MarkersReversed ==
  /\ pc = "done"
  /\ arg = << <<"$", ".", " ", "I", " ", "h", "o", "p", "e", "\\", "b", "o", "x", "e", "d", "{", "3", "}", "f", "i", "n", "a", "l", " ", "a", "n", "s", "w", "e", "r", " ", "i", "s", " ", "$", "5">>, "math", FALSE >>
  /\ trace.strategy = "minerva"
  /\ extracted_answer = <<"5">>


\* the two answer-is markers
AnswerIsMarkers == { <<"h", "e", " ", "a", "n", "s", "w", "e", "r", " ", "i", "s">>, <<"f", "i", "n", "a", "l", " ", "a", "n", "s", "w", "e", "r", " ", "i", "s">> }

\* the text after the last occurrence of any of the two answer-is markers
AfterLastAnswerIs(text) ==
  LET last == { i + Len(m) - 1 : <<i, m>> \in { p \in (1..Len(text)) \X AnswerIsMarkers : StartsAt(text, p[1], p[2]) } }
  IN  Drop(text, Max(last))

\* the text has none of the Minerva markers and no "boxed", has an answer-is
\* marker, and the data set is not a multiple-choice one
AnswerIsCase(text, data_name) ==
  /\ data_name \notin {"mmlu_stem", "sat_math", "aqua", "gaokao2023"}
  /\ ~Contains(text, <<"f", "i", "n", "a", "l", " ", "a", "n", "s", "w", "e", "r", " ", "i", "s", " ", "$">>)
  /\ ~Contains(text, <<"$", ".", " ", "I", " ", "h", "o", "p", "e">>)
  /\ ~Contains(text, <<"b", "o", "x", "e", "d">>)
  /\ \E m \in AnswerIsMarkers : Contains(text, m)

\* C12: when no Minerva markers and no "boxed" occur in the text and it
\* contains "he answer is" or "final answer is", extract_answer takes as raw
\* candidate everything after the last occurrence of any of the two markers
\* (surrounding whitespace removed), also when both markers occur in the same
\* text: the text after the later of the two is taken.
C12_AfterLastMarker ==
  (pc = "done" /\ AnswerIsCase(arg[1], arg[2]))
  => trace.raw = Strip(AfterLastAnswerIs(arg[1]))

\* C12, the case of both markers: "final answer is" occurs after the last
\* "he answer is", and the candidate is the text after "he answer is".
C12_EarlierMarkerTaken ==
  /\ pc = "done"
  /\ arg = << <<" ", "T", "h", "e", " ", "a", "n", "s", "w", "e", "r", " ", "i", "s", " ", "4", " ", "f", "i", "n", "a", "l", " ", "a", "n", "s", "w", "e", "r", " ", "i", "s", " ", "6">>, "math", FALSE >>
  /\ trace.strategy = "he_answer_is"
  /\ trace.raw = <<"4", " ", "f", "i", "n", "a", "l", " ", "a", "n", "s", "w", "e", "r", " ", "i", "s", " ", "6">>
-----------------------------------------------------------------------------
(* Properties of strip_string, checked under SpecNorm.                     *)

\* a plain numeral: an optional minus sign, 0 or digits that do not start
\* with 0, and optionally a point followed by digits
IsPlainNumeral(s) ==
  LET body  == IF s # <<>> /\ s[1] = "-" THEN Tail(s) ELSE s
      point == Find(body, <<".">>, 1)
      whole == IF point = 0 THEN body ELSE SubSeq(body, 1, point - 1)
      frac  == IF point = 0 THEN <<>> ELSE SubSeq(body, point + 1, Len(body))
  IN  /\ whole # <<>>
      /\ \A i \in DOMAIN whole : whole[i] \in Digits
      /\ Len(whole) > 1 => whole[1] # "0"
      /\ point # 0 => frac # <<>>
      /\ \A i \in DOMAIN frac : frac[i] \in Digits

-----------------------------------------------------------------------------
(* Properties of local_search, checked under SpecSearch.                   *)

\* a decoded body of the shape {result: [[...]]}
HasResultShape(body) ==
  /\ body.t = "obj"
  /\ "result" \in DOMAIN body.fields
  /\ body.fields["result"].t = "list"
  /\ body.fields["result"].items # <<>>
  /\ body.fields["result"].items[1].t = "list"

\* C10: local_search never raises, and it returns the empty list on a
\* transport failure and on a decoded body that has not the shape
\* {result: [[...]]}.
C10_NeverRaises ==
  /\ raised = "none"
  /\ (pc = "done" /\ trace.failure # "none") => contexts = <<>>
  /\ (pc = "done" /\ trace.failure = "none" /\ ~HasResultShape(arg)) => contexts = <<>>

\* C10, the case of the empty result list: line 80 raised IndexError.
C10_EmptyResultRaises ==
  /\ pc = "done"
  /\ arg = JObj([result |-> JList(<<>>)])
  /\ raised = "IndexError"

-----------------------------------------------------------------------------
(* Properties of the bracket pass of strip_string, checked under           *)
(* SpecBrackets.                                                           *)

\* the text between the first and the last character
Inside(s) == SubSeq(s, 2, Len(s) - 1)

\* s is enclosed in one pair of brackets of the same kind, and the text
\* inside the pair is entirely alphanumeric
EnclosedAlnum(s) ==
  /\ Len(s) >= 2
  /\ << s[1], s[Len(s)] >> \in { <<"{", "}">>, <<"(", ")">>, <<"[", "]">> }
  /\ IsAlnum(Inside(s))

\* C11: when the string at the bracket pass is enclosed in one pair of {},
\* () or [] and the text inside the pair is entirely alphanumeric, the pass
\* removes exactly that enclosing layer ((5) becomes 5, [12] becomes 12);
\* otherwise the pass leaves the string unchanged.
C11_StripsEnclosingLayer ==
  pc \in {"after_brackets", "done"} =>
    trace[2] = IF EnclosedAlnum(trace[1]) THEN Inside(trace[1]) ELSE trace[1]

\* C11, the case of the claim: (5) reached the bracket pass and left it, and
\* strip_string, with its brackets.
C11_ParenthesisedKept ==
  /\ pc = "done"
  /\ arg[1] = <<"(", "5", ")">>
  /\ trace = << <<"(", "5", ")">>, <<"(", "5", ")">>, <<"(", "5", ")">> >>

====
